---- MODULE Spec2Model ----
(***************************************************************************)
(* Model of the RAG helper functions (agentic/utils/rag_helper.py) over a  *)
(* vector store, and of the browser tool's run_browser_agent               *)
(* (agentic/tools/browser_use.py) with FinishCompletion.create             *)
(* (agentic/events.py).                                                    *)
(*                                                                         *)
(* The store is the client's view: each collection name either exists and  *)
(* holds a set of objects, or does not exist.  An object is its properties *)
(* and its named vectors; within a collection objects are told apart by    *)
(* (document_id, chunk_index).  The server-assigned uuid is not modelled:  *)
(* no function of the module reads or passes it.                           *)
(***************************************************************************)
EXTENDS Integers, Sequences, FiniteSets, TLC

\* ----------------------------------------------------------------- bounds
MaxChunks == 2
MaxTokens == 2
MaxTotalTokens == 3
MaxHistory == 2

Names == {"A", "B"}
DocIds == {"d1", "d2"}
Fingerprints == {"f1", "f2"}
Vectors == {"v1", "v2"}
Contents == {"x", "y"}
Filenames == {"d1.txt", "d2.txt"}
Models == {"gpt-4o-mini", "gpt-4o"}
Agents == {"Browser Agent", "Research Agent"}

VARIABLES
    collections,          \* the store: name -> [exists, objects]
    call,                 \* the helper call made last, with its arguments
    ret,                  \* its outcome: [kind |-> "return" | "raise", value]
    pre,                  \* the store when that call started
    bpc,                  \* run_browser_agent: "idle", "running", "done"
    total_input_tokens,   \* TokenCounterStdOutCallback.total_input_tokens
    total_output_tokens,  \* TokenCounterStdOutCallback.total_output_tokens
    self_model,           \* BrowserUseTool.model, set by __init__
    agent_name,           \* run_context.agent.name of the running call
    history,              \* what the browser agent has extracted so far
    run_ok,               \* whether agent.run() completed without error
    result                \* outcome of run_browser_agent

vars == <<collections, call, ret, pre, bpc, total_input_tokens,
          total_output_tokens, self_model, agent_name, history, run_ok, result>>

storeVars == <<collections, call, ret, pre>>
browserVars == <<bpc, total_input_tokens, total_output_tokens, self_model,
                 agent_name, history, run_ok, result>>

Return(v) == [kind |-> "return", value |-> v]
Raise(e) == [kind |-> "raise", value |-> e]

\* ------------------------------------------------------------ the objects
\* One chunk as the indexer stores it: the document's metadata, the chunk's
\* index, and the chunk's vector under the name "default".
Chunk(document_id, fingerprint, chunk_index, vector) ==
    [properties |-> [document_id |-> document_id,
                     fingerprint |-> fingerprint,
                     chunk_index |-> chunk_index],
     vector |-> [default |-> vector]]

\* The chunks of one document: one document_id and one fingerprint per
\* document (both are fields of the document's metadata).
DocumentChunks(document_id, fingerprint, vector, n) ==
    {Chunk(document_id, fingerprint, i, vector) : i \in 0..(n - 1)}

DocumentChoices(document_id) ==
    {{}} \cup {DocumentChunks(document_id, fp, v, n) :
                  fp \in Fingerprints, v \in Vectors, n \in 1..MaxChunks}

\* The object sets a collection can hold.
CollectionContents ==
    LET all == UNION {DocumentChoices(d) : d \in DocIds}
        picks == {f \in [DocIds -> all] : \A d \in DocIds : f[d] \in DocumentChoices(d)}
    IN  {UNION {f[d] : d \in DocIds} : f \in picks}

Absent == [exists |-> FALSE, objects |-> {}]
Present(objs) == [exists |-> TRUE, objects |-> objs]

\* ------------------------------------------------- client.collections.*
exists(store, name) == store[name].exists

delete(store, name) == [store EXCEPT ![name] = Absent]

create_collection(store, index_name) ==
    IF ~exists(store, index_name)
    THEN [store EXCEPT ![index_name] = Present({})]
    ELSE store

\* batch.add_object(properties=obj.properties, vector=obj.vector["default"])
add_object(obj) ==
    [properties |-> obj.properties, vector |-> [default |-> obj.vector["default"]]]

\* rename_collection without the deletion of an existing target (line 192).
rename_collection_keep_target(store, source_name, target_name, overwrite) ==
    IF ~exists(store, source_name) THEN [store |-> store, ret |-> Return(FALSE)]
    ELSE IF exists(store, target_name) /\ ~overwrite
    THEN [store |-> store, ret |-> Return(FALSE)]
    ELSE LET s2 == create_collection(store, target_name)
             s3 == [s2 EXCEPT ![target_name].objects =
                        @ \cup {add_object(o) : o \in s2[source_name].objects}]
             s4 == delete(s3, source_name)
         IN  [store |-> s4, ret |-> Return(TRUE)]

\* rename_collection without the overwrite test (lines 189-190).
rename_collection_always_overwrite(store, source_name, target_name, overwrite) ==
    IF ~exists(store, source_name) THEN [store |-> store, ret |-> Return(FALSE)]
    ELSE LET s1 == IF exists(store, target_name)
                   THEN delete(store, target_name) ELSE store
             s2 == create_collection(s1, target_name)
             s3 == [s2 EXCEPT ![target_name].objects =
                        @ \cup {add_object(o) : o \in s2[source_name].objects}]
             s4 == delete(s3, source_name)
         IN  [store |-> s4, ret |-> Return(TRUE)]

\* rename_collection: the store it leaves and the value it returns.
rename_collection(store, source_name, target_name, overwrite) ==
    IF ~exists(store, source_name) THEN [store |-> store, ret |-> Return(FALSE)]
    ELSE IF exists(store, target_name) /\ ~overwrite
    THEN [store |-> store, ret |-> Return(FALSE)]
    ELSE LET s1 == IF exists(store, target_name)
                   THEN delete(store, target_name) ELSE store
             s2 == create_collection(s1, target_name)
             s3 == [s2 EXCEPT ![target_name].objects =
                        @ \cup {add_object(o) : o \in s2[source_name].objects}]
             s4 == delete(s3, source_name)
         IN  [store |-> s4, ret |-> Return(TRUE)]

\* --------------------------------------------- collection.query / .data
Matching(objects, property, value) ==
    {o \in objects : o.properties[property] = value}

\* collection.query.fetch_objects(limit=1, filters=by_property(p).equal(v)):
\* the object lists the query can return (any one matching object).
fetch_objects(objects, property, value) ==
    IF Matching(objects, property, value) = {}
    THEN {<<>>}
    ELSE {<<o>> : o \in Matching(objects, property, value)}

\* collection.aggregate.over_all(filters=..., total_count=True).total_count
total_count(objects, property, value) ==
    Cardinality(Matching(objects, property, value))

\* collection.data.delete_many(where=...): the outcomes of the batch delete,
\* which reports how many of the matching objects it deleted.
delete_many(objects, property, value) ==
    {[objects |-> objects \ deleted, successful |-> Cardinality(deleted)] :
        deleted \in SUBSET Matching(objects, property, value)}

\* check_document_exists with the fingerprint lookup consulted first.
check_document_exists_content_first(objects, document_id, fingerprint) ==
    {IF Len(existing_content) > 0 THEN <<TRUE, "duplicate">>
     ELSE IF Len(existing_docs) > 0
     THEN (IF existing_docs[1].properties["fingerprint"] = fingerprint
           THEN <<TRUE, "unchanged">> ELSE <<TRUE, "changed">>)
     ELSE <<FALSE, "new">> :
        existing_docs \in fetch_objects(objects, "document_id", document_id),
        existing_content \in fetch_objects(objects, "fingerprint", fingerprint)}

\* The values check_document_exists can return.
check_document_exists(objects, document_id, fingerprint) ==
    {IF Len(existing_docs) > 0
     THEN (IF existing_docs[1].properties["fingerprint"] = fingerprint
           THEN <<TRUE, "unchanged">> ELSE <<TRUE, "changed">>)
     ELSE IF Len(existing_content) > 0 THEN <<TRUE, "duplicate">>
     ELSE <<FALSE, "new">> :
        existing_docs \in fetch_objects(objects, "document_id", document_id),
        existing_content \in fetch_objects(objects, "fingerprint", fingerprint)}

\* delete_document_from_index without the count verification (lines 148-151).
delete_document_from_index_unverified(objects, document_id, filename) ==
    {[objects |-> r.objects, ret |-> Return(r.successful)] :
        r \in delete_many(objects, "document_id", document_id)}

\* The outcomes of delete_document_from_index: the objects left and the
\* count returned or the error raised.
delete_document_from_index(objects, document_id, filename) ==
    LET original_count == total_count(objects, "document_id", document_id)
    IN  {[objects |-> r.objects,
          ret |-> IF r.successful # original_count
                  THEN Raise("RuntimeError")
                  ELSE Return(r.successful)] :
            r \in delete_many(objects, "document_id", document_id)}

\* The values check_document_in_index can return.
check_document_in_index(objects, document_id) ==
    {Len(existing) > 0 : existing \in fetch_objects(objects, "document_id", document_id)}

\* --------------------------------------------------- the store's actions
InitStoreCall ==
    /\ call = [op |-> "none"]
    /\ ret = Return("None")
    /\ pre = collections

InitBrowser ==
    /\ bpc = "idle"
    /\ total_input_tokens = 0
    /\ total_output_tokens = 0
    /\ self_model = "gpt-4o-mini"
    /\ agent_name = "Browser Agent"
    /\ history = <<>>
    /\ run_ok = FALSE
    /\ result = Return(<<>>)

InitRename ==
    /\ collections \in [Names -> {Absent} \cup {Present(c) : c \in CollectionContents}]
    /\ InitStoreCall
    /\ InitBrowser

CreateCollection(index_name) ==
    /\ collections' = create_collection(collections, index_name)
    /\ call' = [op |-> "create_collection", index_name |-> index_name]
    /\ ret' = Return("None")
    /\ pre' = collections
    /\ UNCHANGED browserVars

RenameCollection(source_name, target_name, overwrite) ==
    LET r == rename_collection(collections, source_name, target_name, overwrite)
    IN  /\ collections' = r.store
        /\ call' = [op |-> "rename_collection", source_name |-> source_name,
                    target_name |-> target_name, overwrite |-> overwrite]
        /\ ret' = r.ret
        /\ pre' = collections
        /\ UNCHANGED browserVars

NextRename ==
    \/ \E n \in Names : CreateCollection(n)
    \/ \E s \in Names, t \in Names, o \in BOOLEAN : RenameCollection(s, t, o)

SpecRename == InitRename /\ [][NextRename]_vars

\* ------------------------------------------------------ claims on rename
IsRename == call.op = "rename_collection"

C2_RenameRefusals ==
    IsRename =>
        LET no_source == ~exists(pre, call.source_name)
            target_kept == exists(pre, call.target_name) /\ ~call.overwrite
        IN  /\ ret.kind = "return"
            /\ (ret.value = FALSE) <=> (no_source \/ target_kept)
            /\ (ret.value = FALSE) => collections = pre
            /\ target_kept => collections[call.target_name] = pre[call.target_name]

\* A refused rename onto an existing non-empty target from an existing source
\* with other objects.
C2_Witness ==
    /\ IsRename /\ ret = Return(FALSE)
    /\ ~call.overwrite
    /\ call.source_name # call.target_name
    /\ exists(pre, call.source_name)
    /\ exists(pre, call.target_name)
    /\ pre[call.target_name].objects # {}
    /\ pre[call.source_name].objects # pre[call.target_name].objects

\* ------------------------------------------- actions on one collection
InitIndex ==
    /\ \E n \in Names, c \in CollectionContents :
          collections = [m \in Names |-> IF m = n THEN Present(c) ELSE Absent]
    /\ InitStoreCall
    /\ InitBrowser

CheckDocumentExists(collection, document_id, fingerprint) ==
    /\ exists(collections, collection)
    /\ \E v \in check_document_exists(collections[collection].objects,
                                      document_id, fingerprint) :
          ret' = Return(v)
    /\ call' = [op |-> "check_document_exists", collection |-> collection,
                document_id |-> document_id, fingerprint |-> fingerprint]
    /\ pre' = collections
    /\ UNCHANGED <<collections, browserVars>>

DeleteDocumentFromIndex(collection, document_id, filename) ==
    /\ exists(collections, collection)
    /\ \E r \in delete_document_from_index(collections[collection].objects,
                                           document_id, filename) :
          /\ collections' = [collections EXCEPT ![collection].objects = r.objects]
          /\ ret' = r.ret
    /\ call' = [op |-> "delete_document_from_index", collection |-> collection,
                document_id |-> document_id, filename |-> filename]
    /\ pre' = collections
    /\ UNCHANGED browserVars

CheckDocumentInIndex(collection, document_id) ==
    /\ exists(collections, collection)
    /\ \E v \in check_document_in_index(collections[collection].objects, document_id) :
          ret' = Return(v)
    /\ call' = [op |-> "check_document_in_index", collection |-> collection,
                document_id |-> document_id]
    /\ pre' = collections
    /\ UNCHANGED <<collections, browserVars>>

NextIndex ==
    \/ \E c \in Names, d \in DocIds, f \in Fingerprints : CheckDocumentExists(c, d, f)
    \/ \E c \in Names, d \in DocIds, fn \in Filenames : DeleteDocumentFromIndex(c, d, fn)
    \/ \E c \in Names, d \in DocIds : CheckDocumentInIndex(c, d)

SpecIndex == InitIndex /\ [][NextIndex]_vars

\* ------------------------------------------- claims on one collection
\* C3: when delete_document_from_index returns n, n is the number of objects
\* that had that document_id before the call, no object with that
\* document_id remains in the collection, every object with a different
\* document_id is still present and unchanged, and check_document_in_index
\* for that document_id then returns False.
C3_DeleteRemovesDocument ==
    (call.op = "delete_document_from_index" /\ ret.kind = "return") =>
        LET before == pre[call.collection].objects
            after == collections[call.collection].objects
            had == Matching(before, "document_id", call.document_id)
        IN  /\ ret.value = Cardinality(had)
            /\ Matching(after, "document_id", call.document_id) = {}
            /\ after = before \ had
            /\ check_document_in_index(after, call.document_id) = {FALSE}
            /\ \A n \in Names \ {call.collection} : collections[n] = pre[n]

\* A document of several chunks deleted from a collection that also holds
\* another document.
C3_Witness ==
    /\ call.op = "delete_document_from_index" /\ ret.kind = "return"
    /\ ret.value >= 2
    /\ collections[call.collection].objects # {}

\* C4: check_document_exists returns (True, "unchanged") when an object with
\* that document_id exists and its fingerprint equals the given one,
\* (True, "changed") when an object with that document_id exists with a
\* different fingerprint, (True, "duplicate") when no object has that
\* document_id but some object has that fingerprint, and (False, "new")
\* otherwise; the boolean is False exactly when the status is "new", and the
\* collection is not modified.
C4_CheckDocumentExists ==
    call.op = "check_document_exists" =>
        LET objects == pre[call.collection].objects
            docs == Matching(objects, "document_id", call.document_id)
            same == {o \in docs : o.properties["fingerprint"] = call.fingerprint}
            other == docs \ same
            content == Matching(objects, "fingerprint", call.fingerprint)
        IN  /\ ret.kind = "return"
            /\ same # {} => ret.value = <<TRUE, "unchanged">>
            /\ other # {} => ret.value = <<TRUE, "changed">>
            /\ (docs = {} /\ content # {}) => ret.value = <<TRUE, "duplicate">>
            /\ (docs = {} /\ content = {}) => ret.value = <<FALSE, "new">>
            /\ (ret.value[1] = FALSE) <=> (ret.value[2] = "new")
            /\ collections = pre

\* The document_id is indexed with another fingerprint while a different
\* document carries the given fingerprint: the document_id match wins.
C4_Witness ==
    /\ call.op = "check_document_exists"
    /\ ret = Return(<<TRUE, "changed">>)
    /\ Matching(pre[call.collection].objects, "fingerprint", call.fingerprint) # {}

\* ------------------------------------------------------- the browser tool
\* "\n".join(parts), as the sequence of its pieces.
RECURSIVE JoinNewline(_)
JoinNewline(parts) ==
    IF Len(parts) = 0 THEN <<>>
    ELSE IF Len(parts) = 1 THEN <<parts[1]>>
    ELSE <<parts[1], "\n">> \o JoinNewline(Tail(parts))

\* Python's `x or 0` on a number.
OrZero(x) == IF x = 0 THEN 0 ELSE x

\* The parameters FinishCompletion.create declares, cls aside.
CreateParameters ==
    {"agent", "llm_message", "model", "cost", "input_tokens", "output_tokens",
     "elapsed_time"}

\* FinishCompletion.create called with keyword arguments kwargs: a keyword
\* the signature does not declare, or a missing one, is a TypeError.
FinishCompletion_create(kwargs) ==
    IF DOMAIN kwargs # CreateParameters
    THEN Raise("TypeError")
    ELSE Return([agent |-> kwargs.agent,
                 type |-> "completion_end",
                 payload |-> kwargs.llm_message,
                 depth |-> 0,
                 metadata |-> [model |-> kwargs.model,
                               cost |-> OrZero(kwargs.cost),
                               input_tokens |-> OrZero(kwargs.input_tokens),
                               output_tokens |-> OrZero(kwargs.output_tokens),
                               elapsed_time |-> OrZero(kwargs.elapsed_time)]])

\* TokenCounterStdOutCallback.on_llm_end: the totals after the response.
on_llm_end(totals, response) ==
    IF response.has_llm_output
    THEN [input |-> totals.input + response.prompt_tokens,
          output |-> totals.output + response.completion_tokens]
    ELSE totals

\* What run_browser_agent does once agent.run() has returned its result.
run_browser_agent(name, model, extracted_content, input_tokens, output_tokens) ==
    LET event == FinishCompletion_create(
                    [agent |-> name,
                     llm_message |-> <<"Tokens used - Input: ", input_tokens,
                                       ", Output: ", output_tokens>>,
                     model |-> model,
                     cost |-> 0,
                     input_tokens |-> input_tokens,
                     output_tokens |-> output_tokens,
                     elapsed_time |-> 0,
                     depth |-> 0])
    IN  IF event.kind = "raise" THEN event
        ELSE Return(<<JoinNewline(extracted_content), event.value>>)

InitTool ==
    /\ collections = [n \in Names |-> Absent]
    /\ InitStoreCall
    /\ bpc = "idle"
    /\ total_input_tokens = 0
    /\ total_output_tokens = 0
    /\ self_model \in Models
    /\ agent_name \in Agents
    /\ history = <<>>
    /\ run_ok = FALSE
    /\ result = Return(<<>>)

\* run_browser_agent is called: a fresh token counter, then agent.run().
StartRun(name) ==
    /\ bpc \in {"idle", "done"}
    /\ bpc' = "running"
    /\ agent_name' = name
    /\ total_input_tokens' = 0
    /\ total_output_tokens' = 0
    /\ history' = <<>>
    /\ run_ok' = FALSE
    /\ result' = Return(<<>>)
    /\ UNCHANGED <<storeVars, self_model>>

\* The agent's LLM finishes a call and the callback counts its tokens.
OnLlmEnd(response) ==
    /\ bpc = "running"
    /\ LET t == on_llm_end([input |-> total_input_tokens,
                            output |-> total_output_tokens], response)
       IN  /\ t.input <= MaxTotalTokens
           /\ t.output <= MaxTotalTokens
           /\ total_input_tokens' = t.input
           /\ total_output_tokens' = t.output
    /\ UNCHANGED <<storeVars, bpc, self_model, agent_name, history, run_ok, result>>

\* The agent takes a browsing action that extracts content.
AgentExtracts(content) ==
    /\ bpc = "running"
    /\ Len(history) < MaxHistory
    /\ history' = Append(history, content)
    /\ UNCHANGED <<storeVars, bpc, total_input_tokens, total_output_tokens,
                   self_model, agent_name, run_ok, result>>

\* agent.run() returns and run_browser_agent builds its return value.
AgentRunCompletes ==
    /\ bpc = "running"
    /\ bpc' = "done"
    /\ run_ok' = TRUE
    /\ result' = run_browser_agent(agent_name, self_model, history,
                                   total_input_tokens, total_output_tokens)
    /\ UNCHANGED <<storeVars, total_input_tokens, total_output_tokens,
                   self_model, agent_name, history>>

\* agent.run() raises and the error propagates out of run_browser_agent.
AgentRunFails ==
    /\ bpc = "running"
    /\ bpc' = "done"
    /\ run_ok' = FALSE
    /\ result' = Raise("AgentError")
    /\ UNCHANGED <<storeVars, total_input_tokens, total_output_tokens,
                   self_model, agent_name, history>>

Responses ==
    {[has_llm_output |-> FALSE, prompt_tokens |-> 0, completion_tokens |-> 0]}
    \cup [has_llm_output : {TRUE}, prompt_tokens : 0..MaxTokens,
          completion_tokens : 0..MaxTokens]

NextTool ==
    \/ \E a \in Agents : StartRun(a)
    \/ \E r \in Responses : OnLlmEnd(r)
    \/ \E c \in Contents : AgentExtracts(c)
    \/ AgentRunCompletes
    \/ AgentRunFails

SpecTool == InitTool /\ [][NextTool]_vars

\* C5: whenever the external agent's run completes without error,
\* run_browser_agent returns (rather than raises) a two-element list whose
\* first element is the extracted content joined by newlines and whose second
\* element is a FinishCompletion event for the calling agent whose metadata
\* carries the model and the input and output token totals the token counter
\* accumulated during the run.
C5_RunReturnsHistoryAndUsage ==
    (bpc = "done" /\ run_ok) =>
        /\ result.kind = "return"
        /\ Len(result.value) = 2
        /\ result.value[1] = JoinNewline(history)
        /\ result.value[2].type = "completion_end"
        /\ result.value[2].agent = agent_name
        /\ result.value[2].metadata.model = self_model
        /\ result.value[2].metadata.input_tokens = total_input_tokens
        /\ result.value[2].metadata.output_tokens = total_output_tokens

====
